---- MODULE Spec2Model ----
(***************************************************************************)
(* Model of the pc_tool protocol stack: the bootloader codec               *)
(* (com/BootProtocol.py), the STPS/SCP framer (com/Scp.py) and the upgrade *)
(* orchestrator with its firmware image reader (gui/BootFrame.py).         *)
(*                                                                         *)
(* The specifications share the module's variables:                        *)
(*   SpecCodec  drives BootProtocol.parser with recording callbacks,       *)
(*   SpecStps   drives StpsParser.parse byte by byte against a clock,      *)
(*   Spec       drives BootFrame (buttons, COM port, device frames),       *)
(*   SpecCrc    calls the four CRC-8 routines,                             *)
(*   SpecCli    calls ScpCliMessage.assemle.                               *)
(* A specification leaves the variables of the others untouched.           *)
(***************************************************************************)
EXTENDS Integers, Sequences, FiniteSets, TLC

VARIABLES
    rx_q,       \* BootProtocol.rx_q, the reassembly buffer
    cb_log,     \* SpecCodec: the callback invocations so far, in order
    outcome,    \* SpecCodec: branch the last parser call ended in
    ncalls,     \* SpecCodec: number of parser calls so far, counted up to MaxCalls
    rx_in,      \* SpecCodec: segments of the byte stream not yet delivered
    sc,         \* SpecCodec: the scenario drawn by Init
    buf,        \* StpsParser.buf, the accumulation buffer
    mode,       \* StpsParser.mode
    last_time,  \* StpsParser.last_time, in ms
    now,        \* the clock time.time() reads, in ms
    stps_in,    \* SpecStps: bytes not yet handed to parse
    stps_out,   \* SpecStps: the values parse returned that were not None
    stps_sc,    \* SpecStps: the scenario drawn by Init
    npolls,     \* SpecStps: parse calls made without data
    gapped,     \* SpecStps: the frame's first byte came more than 100 ms
                \* after the byte before it
    fw_file,            \* BootFrame.fw_file: 0 for None, else a file of FwFiles
    image_valid_btn,    \* state of the switch "Validate FW image"
    usb_com_btn,        \* state of the switch "USB communication"
    upgrade_btn_active, \* BootFrame.upgrade_btn_active
    update_btn,         \* update_btn widget state: "normal" or "disabled"
    browse_btn,         \* browse_btn widget state
    btn_text,           \* text of update_btn: "Upgrade" or "Cancel"
    status_text,        \* text of the status label, a tuple of its parts
    working_addr,       \* BootFrame.working_addr
    progress,           \* the percentage progress_text shows
    boot_ver_text,      \* version shown by the info callback, <<>> for "---"
    timers,             \* every _TimerReset created so far
    com_timer,          \* BootFrame.com_timer: index in timers, 0 when the
                        \* attribute does not exist
    tx_last,            \* Spec: what the last handler sent
    exc_last,           \* Spec: exception that ended the last handler
    last_op,            \* Spec: the event handled last
    com_connected,      \* Spec: the COM port is open (MainWindow)
    ndev,               \* Spec: number of frames and noise bytes the device has
                        \* started to send
    wire,               \* Spec: bytes of the frame in transit that the serial
                        \* port has not read yet
    dialog_open,        \* Spec: __browse_btn_press waits in askopenfilename
    crc_in,     \* SpecCrc: the byte sequence handed to the CRC routines
    crc_rtn,    \* SpecCrc: what each routine called so far has returned
    cli_text,   \* SpecCli: the text handed to assemle, as character codes
    cli_scp_msg,\* ScpCliMessage.scp_msg
    cli_rtn     \* SpecCli: what the assemle calls made so far have returned

codec_vars == <<rx_q, cb_log, outcome, ncalls, rx_in, sc>>

stps_vars == <<buf, mode, last_time, now, stps_in, stps_out, stps_sc, npolls, gapped>>

boot_vars ==
    <<fw_file, image_valid_btn, usb_com_btn, upgrade_btn_active, update_btn, browse_btn,
      btn_text, status_text, working_addr, progress, boot_ver_text, timers, com_timer,
      com_connected, tx_last, exc_last, last_op, ndev, wire, dialog_open>>

crc_vars == <<crc_in, crc_rtn>>

cli_vars == <<cli_text, cli_scp_msg, cli_rtn>>

vars == <<codec_vars, stps_vars, boot_vars, crc_vars, cli_vars>>

-----------------------------------------------------------------------------
(* Bounds of the model *)

\* longest payload of a modelled bootloader frame
MaxPayload == 2
\* longest run of garbage bytes put in front of a frame
MaxGarbage == 9
\* parser calls are counted up to this number
MaxCalls == 2
\* longest payload of a modelled STPS frame
MaxStpsPayload == 2
\* the clock advances in steps of TickMs up to MaxNow (ms)
TickMs == 60
MaxNow == 240
\* parse calls without data in one run
MaxPolls == 2
MaxCrcLen == 3
MaxCliText == 3
LongCliText == 254
MaxAssemle == 2
\* length of a garbage stream fed to StpsParser
MaxStpsGarbage == 10
\* frames and noise bytes the device starts to send in one run
MaxDevFrames == 3
\* a byte is delivered while the reassembly buffer holds fewer bytes
MaxRxLen == 18

-----------------------------------------------------------------------------
(* Python integer operators *)

\* a ^ b on non-negative integers
RECURSIVE Xor(_, _)
Xor(a, b) ==
    IF a = 0 THEN b
    ELSE IF b = 0 THEN a
    ELSE ((a + b) % 2) + 2 * Xor(a \div 2, b \div 2)

\* the elements lo..hi of s (s[lo-1:hi] in Python), empty when lo > hi
Slice(s, lo, hi) == IF lo > hi THEN <<>> ELSE SubSeq(s, lo, hi)

-----------------------------------------------------------------------------
(* BootProtocol: constants *)

PREAMBLE == <<176, 7>>

CMD_CONNECT_RSP == 17
CMD_PREPARE_RSP == 33
CMD_FLASH_RSP   == 49
CMD_EXIT_RSP    == 65
CMD_INFO_RSP    == 161

MSG_OK == 0

\* self.cmd_type, in callback-slot order
cmd_type == <<CMD_CONNECT_RSP, CMD_PREPARE_RSP, CMD_FLASH_RSP, CMD_EXIT_RSP, CMD_INFO_RSP>>

-----------------------------------------------------------------------------
(* BootProtocol.__calc_crc8 *)

BOOT_CRC_POLY == 7
BOOT_CRC_SEED == 182

\* one pass of an inner loop that tests the whole running value, not bit 7
crc8_shift_any_high_bit(crc8, poly) ==
    IF crc8 >= 128 THEN Xor(crc8 * 2, poly) ELSE crc8 * 2

\* one pass of the inner loop: the value is not masked after the shift
crc8_shift(crc8, poly) ==
    IF (crc8 \div 128) % 2 = 1 THEN Xor(crc8 * 2, poly) ELSE crc8 * 2

\* for n in range( 8 )
crc8_bits(crc8, poly) ==
    crc8_shift(crc8_shift(crc8_shift(crc8_shift(
    crc8_shift(crc8_shift(crc8_shift(crc8_shift(crc8, poly), poly), poly), poly),
        poly), poly), poly), poly)

\* the inner loop applied to every masked running value ((crc8 ^ byte) & 0xFF)
BootCrcBits == [b \in 0..255 |-> crc8_bits(b, BOOT_CRC_POLY)]

\* for byte in data, over data[lo..hi]; the running value is evaluated
\* before the next byte is taken, as the loop does
RECURSIVE calc_crc8_loop(_, _, _, _, _)
calc_crc8_loop(bits, data, lo, hi, crc8) ==
    IF crc8 < 0 \/ lo > hi THEN crc8
    ELSE IF lo = hi THEN bits[Xor(crc8, data[lo]) % 256]
    ELSE LET mid == (lo + hi) \div 2
         IN  calc_crc8_loop(bits, data, mid + 1, hi, calc_crc8_loop(bits, data, lo, mid, crc8))

calc_crc8_zero_seed(data) == calc_crc8_loop(BootCrcBits, data, 1, Len(data), 0) % 256
calc_crc8(data) == calc_crc8_loop(BootCrcBits, data, 1, Len(data), BOOT_CRC_SEED) % 256

-----------------------------------------------------------------------------
(* BootProtocol: send-side builders; each returns the frame handed to send *)

send_connect_frame == <<176, 7, 0, 0, 43, 16, 0, 155>>

send_exit_frame == <<176, 7, 0, 0, 43, 64, 0, 44>>

send_info_frame == <<176, 7, 0, 0, 43, 160, 0, 130>>

send_prepare_frame(image_header) ==
    LET size == Len(image_header)
        hdr  == <<176, 7, size % 256, (size \div 256) % 256, 43, 32, 0, 0>>
        crc  == Xor(Xor(Xor(Xor(calc_crc8(SubSeq(hdr, 3, 4)),
                                calc_crc8(<<43>>)),
                            calc_crc8(<<32>>)),
                        calc_crc8(<<0>>)),
                    calc_crc8(image_header))
    IN  [hdr EXCEPT ![8] = crc] \o image_header

send_flash_data_frame(data, size) ==
    LET hdr == <<176, 7, size % 256, (size \div 256) % 256, 43, 48, 0, 0>>
        crc == Xor(Xor(Xor(Xor(calc_crc8(<<hdr[3], hdr[4]>>),
                               calc_crc8(<<43>>)),
                           calc_crc8(<<48>>)),
                       calc_crc8(<<0>>)),
                   calc_crc8(data))
    IN  [hdr EXCEPT ![8] = crc] \o data

-----------------------------------------------------------------------------
(* BootProtocol.parser *)

\* int((( lenght[1] << 8 ) | lenght[0] & 0xFF ) & 0xFFFF ), for byte entries
lenght_val_of(q) == (q[4] * 256 + q[3]) % 65536

\* "All data received"
all_data_received_off(q) == (Len(q) - 8) > lenght_val_of(q)
all_data_received(q) == (Len(q) - 8) >= lenght_val_of(q)

\* "Get payload": everything behind the header when the length field is not 0
parser_payload(q) == IF lenght_val_of(q) > 0 THEN Slice(q, 9, Len(q)) ELSE <<>>

\* "Calculate crc": the partial CRCs of the fields, combined with XOR
parser_calc_crc(q) ==
    LET c4 == Xor(Xor(Xor(calc_crc8(<<q[3], q[4]>>),
                          calc_crc8(<<q[5]>>)),
                      calc_crc8(<<q[6]>>)),
                  calc_crc8(<<q[7]>>))
    IN  IF lenght_val_of(q) > 0 THEN Xor(c4, calc_crc8(parser_payload(q))) ELSE c4

\* "CRC OK"
crc_ok_unchecked(q) == TRUE
crc_ok(q) == parser_calc_crc(q) = q[8]

\* the callback slots whose command equals the frame's, in loop order
matching_slots_first(command) == {1}
matching_slots(command) == {n \in 1..Len(cmd_type) : cmd_type[n] = command}

\* What one parser call decides once the chunk has been appended to the queue q:
\*   wait      fewer than 8 bytes, or the declared payload is incomplete
\*   desync    the first two bytes are not the preamble (queue reset)
\*   crc_err   CRC mismatch (queue reset)
\*   dispatch  CRC match and a callback slot for the command
\*   ignored   CRC match and no slot for the command (queue reset)
parser_scan(q) ==
    IF Len(q) >= 8
    THEN IF PREAMBLE = <<q[1], q[2]>>
         THEN IF all_data_received(q)
              THEN IF crc_ok(q)
                   THEN IF matching_slots(q[6]) # {}
                        THEN [kind |-> "dispatch", n |-> CHOOSE n \in matching_slots(q[6]) : TRUE,
                              status |-> q[7], payload |-> parser_payload(q)]
                        ELSE [kind |-> "ignored", n |-> 0, status |-> q[7], payload |-> parser_payload(q)]
                   ELSE [kind |-> "crc_err", n |-> 0, status |-> q[7], payload |-> <<>>]
              ELSE [kind |-> "wait", n |-> 0, status |-> 0, payload |-> <<>>]
         ELSE [kind |-> "desync", n |-> 0, status |-> 0, payload |-> <<>>]
    ELSE [kind |-> "wait", n |-> 0, status |-> 0, payload |-> <<>>]

\* the queue a parser call leaves: kept while waiting, kept when the callback
\* raised (reset_rx_queue is not reached), reset otherwise
parser_queue_after_keep_desync(q, kind, raised) ==
    IF kind \in {"wait", "desync"} \/ (kind = "dispatch" /\ raised) THEN q ELSE <<>>
parser_queue_after_keep_dispatch(q, kind, raised) ==
    IF kind \in {"wait", "dispatch"} THEN q ELSE <<>>
parser_queue_after(q, kind, raised) ==
    IF kind = "wait" \/ (kind = "dispatch" /\ raised) THEN q ELSE <<>>

-----------------------------------------------------------------------------
(* Frames a device can put on the wire (spec section 6) *)

SOURCE_DEVICE == 178

DevFrame(command, status, payload) ==
    LET n   == Len(payload)
        l0  == n % 256
        l1  == (n \div 256) % 256
        c4  == Xor(Xor(Xor(calc_crc8(<<l0, l1>>), calc_crc8(<<SOURCE_DEVICE>>)),
                       calc_crc8(<<command>>)), calc_crc8(<<status>>))
        crc == IF n > 0 THEN Xor(c4, calc_crc8(payload)) ELSE c4
    IN  <<176, 7, l0, l1, SOURCE_DEVICE, command, status, crc>> \o payload

RECURSIVE Pow2(_)
Pow2(k) == IF k = 0 THEN 1 ELSE 2 * Pow2(k - 1)

-----------------------------------------------------------------------------
(* Scp.py: StpsMessage *)

STPS_CRC_POLY == 7
STPS_CRC_SEED == 52

\* Python integers are unbounded and StpsMessage.__calc_crc never masks its
\* running value inside the loop.  The model keeps the low 22 bits of it,
\* which hold every bit the code reads (bit 7 and the final & 0xFF).
KeptBits == 2 ^ 22

\* for i in range(size): crc8 = crc8 ^ data[i], then the eight shifts
RECURSIVE StpsMessage_calc_crc_loop(_, _, _, _)
StpsMessage_calc_crc_loop(data, lo, hi, crc8) ==
    IF crc8 < 0 \/ lo > hi THEN crc8
    ELSE IF lo = hi THEN crc8_bits(Xor(crc8, data[lo]), STPS_CRC_POLY) % KeptBits
    ELSE LET mid == (lo + hi) \div 2
         IN  StpsMessage_calc_crc_loop(data, mid + 1, hi,
                                       StpsMessage_calc_crc_loop(data, lo, mid, crc8))

StpsMessage_calc_crc(data, size) ==
    StpsMessage_calc_crc_loop(data, 1, size, STPS_CRC_SEED) % 256

\* StpsMessage( scp_msg, dev_id ).get_msg(): the 8 header bytes
StpsMessage_get_msg(scp_msg, dev_id) ==
    LET scp_msg_len == Len(scp_msg)
        len_low     == scp_msg_len % 256
        len_high    == (scp_msg_len \div 256) % 256
        dev_id_low  == dev_id % 256
        dev_id_high == (dev_id \div 256) % 256
        crc_8 == Xor(Xor(StpsMessage_calc_crc(scp_msg, scp_msg_len),
                         StpsMessage_calc_crc(<<len_low, len_high>>, 2)),
                     StpsMessage_calc_crc(<<dev_id_low, dev_id_high>>, 2))
    IN  <<169, 101, len_low, len_high, dev_id_low, dev_id_high, 0, crc_8 % 256>>

-----------------------------------------------------------------------------
(* Scp.py: StpsParser *)

Idle    == 0
Header  == 1
Payload == 2

\* the 100 ms of "( time.time() - self.last_time ) > 0.1", in ms
STPS_TIMEOUT_MS == 100

StpsCrcBits == [b \in 0..255 |-> crc8_bits(b, STPS_CRC_POLY)]

StpsParser_calc_crc8_boot_seed(data) ==
    calc_crc8_loop(StpsCrcBits, data, 1, Len(data), BOOT_CRC_SEED) % 256
StpsParser_calc_crc8(data) ==
    calc_crc8_loop(StpsCrcBits, data, 1, Len(data), STPS_CRC_SEED) % 256

\* int.from_bytes( data, byteorder='big' )
RECURSIVE int_from_bytes(_)
int_from_bytes(data) ==
    IF data = <<>> THEN 0
    ELSE 256 * int_from_bytes(SubSeq(data, 1, Len(data) - 1)) + data[Len(data)]

\* A value parse returns: None is <<>>, a payload p is <<p>>
None == <<>>

\* __parse_header without "self.buf = []" in the mismatch branch
parse_header_keeps_buf(b) ==
    IF Len(b) >= 8
    THEN IF b[1] = 169 /\ b[2] = 101
         THEN [buf |-> b, mode |-> Payload, rtn |-> None]
         ELSE [buf |-> b, mode |-> Idle, rtn |-> None]
    ELSE [buf |-> b, mode |-> Header, rtn |-> None]

\* __parse_header on buffer b
parse_header(b) ==
    IF Len(b) >= 8
    THEN IF b[1] = 169 /\ b[2] = 101
         THEN [buf |-> b, mode |-> Payload, rtn |-> None]
         ELSE [buf |-> <<>>, mode |-> Idle, rtn |-> None]
    ELSE [buf |-> b, mode |-> Header, rtn |-> None]

\* __parse_payload on buffer b
parse_payload(b) ==
    LET payload_length == b[3] + b[4] * 256
    IN  IF Len(b) >= payload_length + 8
        THEN LET payload  == Slice(b, 9, payload_length + 8)
                 devid    == b[5] + b[6] * 256
                 crc      == b[8]
                 crc_calc == Xor(Xor(StpsParser_calc_crc8(payload),
                                     StpsParser_calc_crc8(<<payload_length % 256,
                                                            (payload_length \div 256) % 256>>)),
                                 StpsParser_calc_crc8(<<devid % 256, (devid \div 256) % 256>>))
             IN  [buf |-> <<>>, mode |-> Idle,
                  rtn |-> IF crc_calc = crc THEN <<payload>> ELSE None]
        ELSE [buf |-> b, mode |-> Payload, rtn |-> None]

\* parse( data ) at clock t: data is <<>> (nothing to add) or the bytes of one
\* call; returns the parser's fields after the call and the value returned
parse(b, m, lt, t, data) ==
    LET b1   == IF data # <<>> THEN Append(b, int_from_bytes(data)) ELSE b
        lt1  == IF data # <<>> THEN t ELSE lt
        step == IF m = Idle THEN [buf |-> b1, mode |-> Header, rtn |-> None]
                ELSE IF m = Header THEN parse_header(b1)
                ELSE parse_payload(b1)
    IN  IF step.mode # Idle /\ (t - lt1) > STPS_TIMEOUT_MS
        THEN [buf |-> <<>>, mode |-> Idle, rtn |-> None, last_time |-> lt1]
        ELSE [buf |-> step.buf, mode |-> step.mode, rtn |-> step.rtn, last_time |-> lt1]

-----------------------------------------------------------------------------
(* Scp.py: ScpParser *)

ScpCommand_WRITE == 1
ScpAttrType_STR == 66
SCP_CLI_CLUSTER == 64585
SCP_TX_ENDPOINT == 0

\* What ScpParser.parse does with the value rtn that StpsParser.parse
\* returned: "if scp_msg:" is false for None and for an empty payload; an
\* index behind the end of scp_msg raises IndexError; the slice
\* scp_msg[12:12+attr_size] ends where scp_msg ends; chr( b ) raises
\* ValueError for an entry above 0x10FFFF.  A returned string is given by
\* its character codes.
ScpParser_parse(rtn) ==
    IF rtn = None \/ rtn[1] = <<>>
    THEN [exc |-> "none", kind |-> "None", str |-> <<>>]
    ELSE LET scp_msg == rtn[1]
         IN  IF Len(scp_msg) < 4
             THEN [exc |-> "IndexError", kind |-> "None", str |-> <<>>]
             ELSE IF scp_msg[3] + scp_msg[4] * 256 = SCP_CLI_CLUSTER
                     /\ scp_msg[2] = ScpCommand_WRITE
             THEN IF Len(scp_msg) < 12
                  THEN [exc |-> "IndexError", kind |-> "None", str |-> <<>>]
                  ELSE IF scp_msg[9] + scp_msg[10] * 256 = SCP_TX_ENDPOINT
                          /\ scp_msg[11] = ScpAttrType_STR
                  THEN LET codes == Slice(scp_msg, 13,
                                          IF 12 + scp_msg[12] < Len(scp_msg)
                                          THEN 12 + scp_msg[12] ELSE Len(scp_msg))
                       IN  IF \E k \in DOMAIN codes : codes[k] > 1114111
                           THEN [exc |-> "ValueError", kind |-> "None", str |-> <<>>]
                           ELSE [exc |-> "none", kind |-> "str", str |-> codes]
                  ELSE [exc |-> "none", kind |-> "None", str |-> <<>>]
             ELSE [exc |-> "none", kind |-> "None", str |-> <<>>]

-----------------------------------------------------------------------------
(* BootFrame.py: FwImage over a binary file *)

APP_HEADER_SIZE_BYTE     == 256
APP_HEADER_CRC_ADDR      == 0
APP_HEADER_APP_SIZE_ADDR == 16

FW_CRC_POLY == 7
FW_CRC_SEED == 182

FwCrcBits == [b \in 0..255 |-> crc8_bits(b, FW_CRC_POLY)]

\* FwImage.__calc_crc8
FwImage_calc_crc8(data) ==
    calc_crc8_loop(FwCrcBits, data, 1, Len(data), FW_CRC_SEED) % 256

\* Byte i >= 1 of a modelled file whose size field (bytes 0x10..0x13,
\* little endian) holds size; the other bytes follow a fixed pattern.
FileBody(size, i) ==
    IF i \in APP_HEADER_APP_SIZE_ADDR..(APP_HEADER_APP_SIZE_ADDR + 3)
    THEN (size \div Pow2(8 * (i - APP_HEADER_APP_SIZE_ADDR))) % 256
    ELSE (i * 7 + 1) % 256

\* A modelled file: len bytes long, byte 0 is crc0
FileByte(f, i) == IF i = 0 THEN f.crc0 ELSE FileBody(f.size, i)

Min(a, b) == IF a < b THEN a ELSE b
Max(a, b) == IF a > b THEN a ELSE b

\* BinFile.read( addr, size ): seek to addr, read up to size bytes
file_read_len(f, addr, size) == Max(0, Min(size, f.len - addr))
file_read(f, addr, size) ==
    [k \in 1..file_read_len(f, addr, size) |-> FileByte(f, addr + k - 1)]

\* FwImage.get_fw_size
get_fw_size(f) ==
    LET b == file_read(f, APP_HEADER_APP_SIZE_ADDR, 4)
    IN  b[1] + 256 * b[2] + 65536 * b[3] + 16777216 * b[4]

\* FwImage.__calc_header_crc
calc_header_crc(f) == FwImage_calc_crc8(file_read(f, 1, APP_HEADER_SIZE_BYTE - 1))

\* FwImage.validate
validate(f) == calc_header_crc(f) = file_read(f, APP_HEADER_CRC_ADDR, 1)[1]

\* the CRC-8 of header bytes 1..255 of a file with the given size field
HeaderCrcFor(len, size) ==
    FwImage_calc_crc8([k \in 1..Min(len - 1, APP_HEADER_SIZE_BYTE - 1) |-> FileBody(size, k)])

MkFile(len, size, flip) ==
    [len |-> len, size |-> size, crc0 |-> Xor(HeaderCrcFor(len, size), flip)]

\* The files the user can select: a well-formed image (header and FwAppLen
\* bytes of application) and the same image with one bit of the header CRC
\* flipped.
FwAppLen == 1000
FwFiles ==
    <<MkFile(APP_HEADER_SIZE_BYTE + FwAppLen, FwAppLen, 0),
      MkFile(APP_HEADER_SIZE_BYTE + FwAppLen, FwAppLen, 1)>>

\* validate() of each selectable file
FwValid == [i \in DOMAIN FwFiles |-> validate(FwFiles[i])]

\* header byte 0 of each selectable file equals the CRC-8 of bytes 1..255
FwHeaderCrcOk ==
    [i \in DOMAIN FwFiles |->
        FileByte(FwFiles[i], 0) = HeaderCrcFor(FwFiles[i].len, FwFiles[i].size)]

-----------------------------------------------------------------------------
(* com/Timer.py: _TimerReset, a single-shot timer that can be restarted and *)
(* cancelled.  BootFrame creates its timer in __update_btn_press only.      *)

BOOT_COM_CONNECT_TIMEOUT_MS == 5000
BOOT_COM_PREPARE_TIMEOUT_MS == 10000
BOOT_COM_FLASH_TIMEOUT_MS   == 500
BOOT_COM_EXIT_TIMEOUT_MS    == 5000

\* _TimerReset( interval, function ) followed by start()
timer_start(tms, interval) == Append(tms, [st |-> "running", interval |-> interval])
\* cancel(): a running timer will not expire any more
timer_cancel(tms, t) ==
    IF tms[t].st = "running" THEN [tms EXCEPT ![t].st = "cancelled"] ELSE tms
\* reset( interval ): a running timer starts over with the new interval
timer_reset(tms, t, interval) ==
    IF tms[t].st = "running" THEN [tms EXCEPT ![t].interval = interval] ELSE tms

-----------------------------------------------------------------------------
(* Python float operators.  A float is an IEEE 754 double; a positive one   *)
(* is held as [m, e]: m its 53 significant bits, first bit first, and e the *)
(* number of those bits in front of the binary point.  Results are rounded  *)
(* to nearest, ties to even.                                                *)

\* the binary digits of the sum of the numbers with digits xbits and ybits:
\* a place receives a carry when a place to its right holds two ones and
\* every place between the two holds one
add_bits(xbits, ybits) ==
    LET width == Max(Len(xbits), Len(ybits)) + 1
        xpad  == [k \in 1..(width - Len(xbits)) |-> 0] \o xbits
        ypad  == [k \in 1..(width - Len(ybits)) |-> 0] \o ybits
        carry(k) == \E g \in (k + 1)..width :
                        /\ xpad[g] + ypad[g] = 2
                        /\ \A t \in (k + 1)..(g - 1) : xpad[t] + ypad[t] = 1
        sum   == [k \in 1..width |->
                     (xpad[k] + ypad[k] + IF carry(k) THEN 1 ELSE 0) % 2]
    IN  IF sum[1] = 0 THEN SubSeq(sum, 2, width) ELSE sum

\* the float nearest to the number with digits bits (the first one 1, point
\* of them in front of the binary point); sticky tells that the exact number
\* has nonzero digits after these
float_round(bits, sticky, point) ==
    IF Len(bits) <= 53
    THEN [m |-> bits \o [pad \in 1..(53 - Len(bits)) |-> 0], e |-> point]
    ELSE LET keep == SubSeq(bits, 1, 53)
             more == sticky \/ \E low \in 55..Len(bits) : bits[low] = 1
             up   == bits[54] = 1 /\ (more \/ keep[53] = 1)
             sum  == add_bits(keep, <<1>>)
         IN  IF ~up THEN [m |-> keep, e |-> point]
             ELSE IF Len(sum) = 53 THEN [m |-> sum, e |-> point]
             ELSE [m |-> SubSeq(sum, 1, 53), e |-> point + 1]

\* long division: the first count binary digits of rest / den after the
\* point (rest < den), and the remainder left after them
RECURSIVE frac_bits(_, _, _)
frac_bits(rest, den, count) ==
    IF count = 1
    THEN [bits |-> <<(2 * rest) \div den>>, rest |-> (2 * rest) % den]
    ELSE LET first == frac_bits(rest, den, count \div 2)
             last  == frac_bits(first.rest, den, count - count \div 2)
         IN  [bits |-> first.bits \o last.bits, rest |-> last.rest]

\* num / den for integers 0 < num and 0 < den < 2^30.  bits_of gives the
\* binary digits of a natural number, first digit first.  A quotient of
\* such numbers has its first one among the first 30 digits after the
\* point, so 86 of them hold the 54 digits the rounding looks at.
float_div(num, den) ==
    LET RECURSIVE bits_of(_)
        bits_of(nat) == IF nat = 0 THEN <<>> ELSE Append(bits_of(nat \div 2), nat % 2)
        whole == bits_of(num \div den)
        frac  == frac_bits(num % den, den, 86)
        all   == whole \o frac.bits
        lead  == CHOOSE k \in 1..Len(all) :
                     all[k] = 1 /\ \A z \in 1..(k - 1) : all[z] = 0
    IN  float_round(SubSeq(all, lead, Len(all)), frac.rest # 0,
                    Len(whole) - (lead - 1))

\* float * 100: 100 x = 64 x + 32 x + 4 x
float_mul_100(float) ==
    LET prod == add_bits(add_bits(float.m \o <<0, 0, 0, 0, 0, 0>>,
                                  float.m \o <<0, 0, 0, 0, 0>>),
                         float.m \o <<0, 0>>)
    IN  float_round(prod, FALSE, float.e + Len(prod) - 53)

\* what "%d" shows for a float below 2^31: the digits in front of the point
float_trunc(float) ==
    LET RECURSIVE int_of_bits(_)
        int_of_bits(bits) ==
            IF bits = <<>> THEN 0
            ELSE 2 * int_of_bits(SubSeq(bits, 1, Len(bits) - 1)) + bits[Len(bits)]
    IN  IF float.e <= 0 THEN 0 ELSE int_of_bits(SubSeq(float.m, 1, float.e))

\* int( ( num / den ) * 100 ) for integers 0 <= num and 0 < den
percent(num, den) ==
    IF num = 0 THEN 0 ELSE float_trunc(float_mul_100(float_div(num, den)))

-----------------------------------------------------------------------------
(* BootFrame.py: BootFrame.  A handler is an operator from the frame's      *)
(* fields s to the fields it leaves; s.tx collects what the handler sent    *)
(* and s.exc names the exception that ended it ("none" if it returned).     *)
(* A statement of a handler takes effect only when no statement before it   *)
(* has raised.                                                              *)

BOOT_FLASH_DATA_FRAME_SIZE == 1024

MSG_ERROR_STR ==
    (0 :> "OK") @@ (1 :> "Validation error") @@
    (2 :> "Invalid request (wrong sequence)") @@
    (4 :> "Error during flash write") @@ (8 :> "Error during flash erase") @@
    (16 :> "Firmware image size error") @@
    (32 :> "Firmware version compatibility error") @@
    (64 :> "Hardware version compatibility error") @@
    (128 :> "Firmware image signature invalid error")

\* BootProtocol.get_status_str: MSG_ERROR_STR[status], KeyError when the
\* status is not one of its keys
get_status_str(status) ==
    IF status \in DOMAIN MSG_ERROR_STR
    THEN [raised |-> "none", str |-> MSG_ERROR_STR[status]]
    ELSE [raised |-> "KeyError", str |-> ""]

\* gui/GuiCommon.py: the methods class NormalButton defines (text is defined
\* twice, the second definition, text( text ), sets the label)
NormalButton_methods == {"text", "grid", "grid_forget", "pack", "destroy", "config"}

\* com/IpcProtocol.py: the members of class IpcMsgType
IpcMsgType_members ==
    {"IpcMsgType_None", "IpcMsgType_ComRefresh", "IpcMsgType_ComConnect",
     "IpcMsgType_ComDisconnect", "IpcMsgType_ComRxFrame", "IpcMsgType_ComTxFrame"}

\* gui/GuiCommon.py: the members of class GuiColor
GuiColor_members ==
    {"main_bg", "main_fg", "sub_1_bg", "sub_1_fg", "btn_bg", "btn_fg", "btn_hoover_bg",
     "nav_btn_bg", "nav_btn_fg", "nav_btn_hoover_bg", "sw_on_btn_bg", "sw_on_btn_fg",
     "sw_on_btn_hoover_bg", "sw_off_btn_bg", "sw_off_btn_fg", "sw_off_btn_hoover_bg",
     "table_bg", "table_fg", "table_sel_bg", "table_ok_bg", "table_fail_bg",
     "table_warn_bg", "table_bg_even", "table_fg_even", "table_bg_delimiter",
     "table_fg_delimiter", "status_bg", "status_fg", "status_bg_connected",
     "console_pc_fg", "console_dev_fg", "console_err_fg", "console_war_fg",
     "add_btn_hoover_bg"}

raise(s, e) == [s EXCEPT !.exc = e]

\* the fields t that the next statement leaves, unless a statement before
\* it has raised
step(s, t) == IF s.exc # "none" THEN s ELSE t

\* the read of an attribute of a class: AttributeError when the class does
\* not define it
attribute(s, members, name) ==
    step(s, IF name \in members THEN s ELSE raise(s, "AttributeError"))

\* a NormalButton that had a get_text method
get_text_defined(s) == s

\* self.update_btn.get_text(): NormalButton defines no get_text
get_text(s) == attribute(s, NormalButton_methods, "get_text")

\* an IpcMsg handed to the IPC send function; kind names the frame or
\* request, addr and size the chunk of a flash data frame
Sent(kind, addr, size) == [kind |-> kind, addr |-> addr, size |-> size]

\* self.__ipc_msg_send( msg )
ipc_msg_send(s, msg) == step(s, [s EXCEPT !.tx = Append(@, msg)])

\* msg_send_ascii: IpcMsg( type=IpcMsgType.IpcMsgType_ComTxFrame, ... )
msg_send_ascii(s, cmd) ==
    ipc_msg_send(attribute(s, IpcMsgType_members, "IpcMsgType_ComTxFrame"),
                 Sent(cmd, 0, 0))

\* msg_send_bin: IpcMsg( type=IpcMsgType.IpcMsgType_ComTxBinary, ... ), the
\* send_fn of BootProtocol
msg_send_bin(s, kind, addr, size) ==
    ipc_msg_send(attribute(s, IpcMsgType_members, "IpcMsgType_ComTxBinary"),
                 Sent(kind, addr, size))

\* __com_port_disconnect
com_port_disconnect(s) ==
    ipc_msg_send(attribute(s, IpcMsgType_members, "IpcMsgType_ComDisconnect"),
                 Sent("ipc_disconnect", 0, 0))

\* __com_port_connect
com_port_connect(s) ==
    ipc_msg_send(attribute(s, IpcMsgType_members, "IpcMsgType_ComConnect"),
                 Sent("ipc_connect", 0, 0))

\* __com_port_reconnect: disconnect, time.sleep( reconnect_pause ), connect.
\* Both callers read get_text() before they come here.
com_port_reconnect(s) == com_port_connect(com_port_disconnect(s))

\* self.com_timer.cancel(), AttributeError when the attribute does not exist
com_timer_cancel(s) ==
    step(s, IF s.com_timer = 0 THEN raise(s, "AttributeError")
            ELSE [s EXCEPT !.timers = timer_cancel(@, s.com_timer)])

\* self.com_timer.reset( interval )
com_timer_reset(s, interval) ==
    step(s, IF s.com_timer = 0 THEN raise(s, "AttributeError")
            ELSE [s EXCEPT !.timers = timer_reset(@, s.com_timer, interval)])

\* status_text["text"] = prefix + get_status_str( status ), KeyError when
\* the status is not a key of MSG_ERROR_STR
report_status(s, prefix, status) ==
    step(s, IF get_status_str(status).raised = "none"
            THEN [s EXCEPT !.status_text = <<prefix, get_status_str(status).str>>]
            ELSE raise(s, get_status_str(status).raised))

\* the lines every callback runs for a status other than MSG_OK behind the
\* report: cancel the timer, then update_btn.text( "Upgrade" )
stop_session(s) ==
    LET s1 == com_timer_cancel(s)
    IN  step(s1, [s1 EXCEPT !.btn_text = "Upgrade"])

\* __boot_connect_rx_cmpt_cb: on MSG_OK the reads of the image raise
\* AttributeError when fw_file is None, and the call
\* send_prepare( fw_size, sw_ver, hw_ver ) passes three arguments to
\* send_prepare( self, image_header ) and raises TypeError
boot_connect_rx_cmpt_cb(s, status, payload) ==
    IF status = MSG_OK
    THEN raise([s EXCEPT !.btn_text = "Cancel"],
               IF s.fw_file = 0 THEN "AttributeError" ELSE "TypeError")
    ELSE stop_session(report_status(s, "ERROR:", status))

\* the read of the next chunk and, when it is not empty, send_flash_data of
\* it followed by working_addr += data_len
send_next_chunk(s) ==
    step(s, IF s.fw_file = 0 THEN raise(s, "AttributeError")
            ELSE LET data_len == file_read_len(FwFiles[s.fw_file], s.working_addr,
                                               BOOT_FLASH_DATA_FRAME_SIZE)
                     s1 == msg_send_bin(s, "flash_data", s.working_addr, data_len)
                 IN  IF data_len > 0
                     THEN step(s1, [s1 EXCEPT !.working_addr = s.working_addr + data_len])
                     ELSE s)

\* __boot_prepare_rx_cmpt_cb
boot_prepare_rx_cmpt_cb(s, status, payload) ==
    LET s0 == get_text(s)
    IN  IF s0.exc # "none" \/ s0.btn_text # "Cancel" THEN s0
        ELSE IF status = MSG_OK
        THEN LET s1 == send_next_chunk([s0 EXCEPT !.working_addr = 0])
             IN  com_timer_reset(step(s1, [s1 EXCEPT !.status_text = <<"Flashing...">>]),
                                 BOOT_COM_FLASH_TIMEOUT_MS)
        ELSE stop_session(report_status(s0, "ERROR:", status))

\* progress = ( working_addr / get_fw_size() ) * 100, a float, shown with
\* "%3d%%", which drops its fraction
show_progress(s) ==
    step(s, IF s.fw_file = 0 THEN raise(s, "AttributeError")
            ELSE LET fw_size == get_fw_size(FwFiles[s.fw_file])
                 IN  IF fw_size = 0 THEN raise(s, "ZeroDivisionError")
                     ELSE [s EXCEPT !.progress = percent(s.working_addr, fw_size)])

\* __boot_flash_rx_cmpt_cb
boot_flash_rx_cmpt_cb(s, status, payload) ==
    LET s0 == get_text(s)
        e1 == msg_send_bin(s0, "exit", 0, 0)
    IN  IF s0.exc # "none" \/ s0.btn_text # "Cancel" THEN s0
        ELSE show_progress(
                 IF status = MSG_OK
                 THEN IF s0.fw_file = 0 THEN raise(s0, "AttributeError")
                      ELSE IF file_read_len(FwFiles[s0.fw_file], s0.working_addr,
                                            BOOT_FLASH_DATA_FRAME_SIZE) > 0
                      THEN com_timer_reset(send_next_chunk(s0), BOOT_COM_FLASH_TIMEOUT_MS)
                      ELSE com_timer_reset(
                               step(e1, [e1 EXCEPT !.status_text = <<"Post-validating...">>]),
                               BOOT_COM_EXIT_TIMEOUT_MS)
                 ELSE stop_session(report_status(s0, "ERROR:", status)))

\* __boot_exit_rx_cmpt_cb: on MSG_OK the colour GuiColor.btn_success_bg is
\* read before the text of the status is set
boot_exit_rx_cmpt_cb(s, status, payload) ==
    LET s0 == get_text(s)
        s1 == com_timer_cancel(s0)
        c1 == attribute(s1, GuiColor_members, "btn_success_bg")
        s2 == IF status = MSG_OK
              THEN step(c1, [c1 EXCEPT !.status_text =
                                           <<"Application successfully upgraded in %.2f sec!">>])
              ELSE report_status(s1, "ERROR: ", status)
        s3 == step(s2, [s2 EXCEPT !.btn_text = "Upgrade", !.browse_btn = "normal"])
    IN  IF s0.exc # "none" \/ s0.btn_text # "Cancel" THEN s0
        ELSE IF s3.usb_com_btn THEN com_port_reconnect(s3) ELSE s3

\* __boot_info_rx_cmpt_cb
boot_info_rx_cmpt_cb(s, status, payload) ==
    IF status = MSG_OK
    THEN IF Len(payload) < 4 THEN raise(s, "IndexError")
         ELSE [s EXCEPT !.boot_ver_text = <<payload[4], payload[3], payload[2], payload[1]>>]
    ELSE s

\* self.cb[n]( status, payload ), n counted from 1
callbacks(n, s, status, payload) ==
    IF n = 1 THEN boot_connect_rx_cmpt_cb(s, status, payload)
    ELSE IF n = 2 THEN boot_prepare_rx_cmpt_cb(s, status, payload)
    ELSE IF n = 3 THEN boot_flash_rx_cmpt_cb(s, status, payload)
    ELSE IF n = 4 THEN boot_exit_rx_cmpt_cb(s, status, payload)
    ELSE boot_info_rx_cmpt_cb(s, status, payload)

\* msg_receive_cb( payload ): BootProtocol.parser with BootFrame's callbacks
msg_receive_cb(s, chunk) ==
    LET q  == s.rx_q \o chunk
        r  == parser_scan(q)
        s1 == IF r.kind = "dispatch" THEN callbacks(r.n, s, r.status, r.payload) ELSE s
    IN  [s1 EXCEPT !.rx_q = parser_queue_after(q, r.kind, s1.exc # "none")]

\* __update_btn_press
update_btn_press(s) ==
    LET s0 == get_text(s)
        s1 == msg_send_ascii([s0 EXCEPT !.browse_btn = "disabled"], "enter_boot")
        s2 == IF s1.usb_com_btn THEN com_port_reconnect(s1) ELSE s1
        s3 == msg_send_bin(step(s2, [s2 EXCEPT !.rx_q = <<>>]), "info", 0, 0)
        s4 == msg_send_bin(s3, "connect", 0, 0)
        c1 == com_timer_cancel(s0)
    IN  IF s0.exc # "none" THEN s0
        ELSE IF s0.btn_text = "Upgrade"
        THEN step(s4, [s4 EXCEPT !.progress = 0,
                                 !.status_text = <<"Connecting...">>,
                                 !.timers = timer_start(@, BOOT_COM_CONNECT_TIMEOUT_MS),
                                 !.com_timer = Len(s4.timers) + 1])
        ELSE step(c1, [c1 EXCEPT !.com_timer = 0,
                                 !.rx_q = <<>>,
                                 !.progress = 0,
                                 !.status_text = <<"WARNING: Upgrade canceled!">>,
                                 !.btn_text = "Upgrade",
                                 !.browse_btn = "normal"])

\* __com_timer_expire
com_timer_expire(s) ==
    LET s0 == get_text(s)
        s1 == IF s0.btn_text = "Cancel"
              THEN [s0 EXCEPT !.status_text = <<"ERROR: Communication with bootloader timeouted!">>,
                              !.btn_text = "Upgrade"]
              ELSE [s0 EXCEPT !.status_text = <<"ERROR: Connecting with bootloader timeouted!">>]
    IN  step(s0, [s1 EXCEPT !.progress = 0, !.rx_q = <<>>, !.browse_btn = "normal",
                            !.com_timer = 0])

\* __browse_btn_press from the return of askopenfilename on, f being the
\* number of the file selected and 0 for a dialog closed without one: with
\* the validation switch on and a valid image the colour
\* GuiColor.btn_success_bg is read before the status is set and the
\* Upgrade button enabled
browse_btn_press(s, f) ==
    LET s1 == [s EXCEPT !.fw_file = f]
        c1 == attribute(s1, GuiColor_members, "btn_success_bg")
    IN  IF f = 0 THEN s
        ELSE IF s1.image_valid_btn
        THEN IF FwValid[f]
             THEN step(c1, [c1 EXCEPT !.status_text = <<"Idle">>,
                                      !.update_btn = "normal", !.upgrade_btn_active = TRUE])
             ELSE [s1 EXCEPT !.status_text = <<"---">>,
                             !.update_btn = "disabled", !.upgrade_btn_active = FALSE]
        ELSE [s1 EXCEPT !.update_btn = "normal", !.upgrade_btn_active = TRUE]

\* MainWindow.__activate_widgets, run on the reply to a COM port connect
\* request: the lines that change BootFrame's widgets
activate_widgets(s) ==
    [s EXCEPT !.browse_btn = "normal",
              !.update_btn = IF s.upgrade_btn_active THEN "normal" ELSE @]

\* MainWindow.__deactivate_widgets, run on the reply to a disconnect request
deactivate_widgets(s) == [s EXCEPT !.browse_btn = "disabled", !.update_btn = "disabled"]

\* Phase of the session as shown by the status label
Phase(text) ==
    IF text \in {<<"---">>, <<"Idle">>} THEN "Idle"
    ELSE IF text = <<"Connecting...">> THEN "Connecting"
    ELSE IF text = <<"Pre-validating and preparing flash...">> THEN "Preparing"
    ELSE IF text = <<"Flashing...">> THEN "Flashing"
    ELSE IF text = <<"Post-validating...">> THEN "Exiting"
    ELSE IF text = <<"Application successfully upgraded in %.2f sec!">> THEN "Done"
    ELSE IF text = <<"WARNING: Upgrade canceled!">> THEN "Canceled"
    ELSE "Failed"

ActivePhases == {"Connecting", "Preparing", "Flashing", "Exiting"}

\* state() of a ConfigSwitch just made with ConfigSwitch( root, text,
\* initial_state ).  No file of the sources defines the class: the switch is
\* taken to hold initial_state until it is pressed and the other state
\* after, as SwitchButton and CliConfigSwitch do.
ConfigSwitch(initial_state) == initial_state

\* BootFrame.__init__ and __init_widgets, with the COM port connected
BootIdle ==
    /\ fw_file = 0
    /\ image_valid_btn = ConfigSwitch(FALSE)
    /\ usb_com_btn = ConfigSwitch(FALSE)
    /\ upgrade_btn_active = FALSE
    /\ update_btn = "disabled"
    /\ browse_btn = "normal"
    /\ btn_text = "Upgrade"
    /\ status_text = <<"---">>
    /\ working_addr = 0
    /\ progress = 0
    /\ boot_ver_text = <<>>
    /\ timers = <<>>
    /\ com_timer = 0
    /\ com_connected = TRUE
    /\ tx_last = <<>>
    /\ exc_last = "none"
    /\ last_op = "init"
    /\ ndev = 0
    /\ wire = <<>>
    /\ dialog_open = FALSE

-----------------------------------------------------------------------------
(* SpecStps: a fresh StpsParser fed, one byte per parse call, an optional   *)
(* partial header and then the header and payload of one STPS frame, or a   *)
(* stream without a valid frame in which one call may bring three bytes,    *)
(* while the clock advances and parse may also be called without data.      *)

RECURSIVE SeqsUpTo(_, _)
SeqsUpTo(S, n) ==
    IF n = 0 THEN {<<>>}
    ELSE LET shorter == SeqsUpTo(S, n - 1)
         IN  shorter \cup {Append(s, x) : s \in {t \in shorter : Len(t) = n - 1}, x \in S}

StpsPayloads == SeqsUpTo({0, 169, 101}, MaxStpsPayload)

\* partial headers (1 to 7 bytes) left in the parser before the frame
StalePartials ==
    {<<>>, <<169>>, <<0>>, <<169, 101, 1>>, <<7, 7, 7, 7>>,
     <<169, 101, 1, 0, 2, 0, 0>>, <<0, 0, 0, 0, 0, 0, 0>>}

\* a partial header and a frame; every parse call takes one byte
StpsFrameScenarios ==
    {[stale |-> st, payload |-> p, dev_id |-> d,
      frame |-> StpsMessage_get_msg(p, d) \o p, wide_at |-> 0, wide_len |-> 1] :
        st \in StalePartials, p \in StpsPayloads, d \in {2, 258}}

\* eight bytes without the preamble, which __parse_header purges, and then
\* a frame; every parse call takes one byte
PurgedHeaders == {<<7, 7, 7, 7, 7, 7, 7, 7>>, <<101, 169, 1, 0, 2, 0, 0, 0>>}

StpsPurgeScenarios ==
    {[stale |-> st, payload |-> p, dev_id |-> 2,
      frame |-> StpsMessage_get_msg(p, 2) \o p, wide_at |-> 0, wide_len |-> 1] :
        st \in PurgedHeaders, p \in StpsPayloads}

\* streams that hold no valid frame: bytes without a preamble, a preamble
\* with the largest length two bytes declare, and a preamble whose length
\* bytes arrive inside one parse call of three bytes (wide_at is the
\* position in the stream of the call that takes wide_len bytes)
StpsGarbageStream(head, at, len) ==
    [stale |-> <<>>, payload |-> <<>>, dev_id |-> 0,
     frame |-> head \o [i \in 1..(MaxStpsGarbage - Len(head)) |-> 0],
     wide_at |-> at, wide_len |-> len]

StpsGarbageScenarios ==
    {StpsGarbageStream(<<7>>, 0, 1),
     StpsGarbageStream(<<169, 101, 255, 255>>, 0, 1),
     StpsGarbageStream(<<169, 101, 0, 1, 0, 0>>, 4, 3)}

\* an SCP message: the 8-byte header with the low byte of the cluster id and
\* the command, then one attribute record
ScpMsg(cluster_lo, command, attr_id_lo, attr_type, attr_len, value) ==
    <<0, command, cluster_lo, 252, 0, 0, 0, 0, attr_id_lo, 0, attr_type, attr_len>> \o value

\* the CLI string "ok" from the device, the same with a length byte larger
\* than the value, with another cluster, command, attribute id or type, and
\* a CLI header without an attribute record
ScpPayloads ==
    {ScpMsg(73, ScpCommand_WRITE, 0, ScpAttrType_STR, 2, <<111, 107>>),
     ScpMsg(73, ScpCommand_WRITE, 0, ScpAttrType_STR, 5, <<111, 107>>),
     ScpMsg(72, ScpCommand_WRITE, 0, ScpAttrType_STR, 2, <<111, 107>>),
     ScpMsg(73, 0, 0, ScpAttrType_STR, 2, <<111, 107>>),
     ScpMsg(73, ScpCommand_WRITE, 1, ScpAttrType_STR, 2, <<111, 107>>),
     ScpMsg(73, ScpCommand_WRITE, 0, 32, 2, <<111, 107>>),
     <<0, ScpCommand_WRITE, 73, 252, 0, 0, 0, 0>>}

\* an STPS frame that carries an SCP message, one byte per parse call
ScpScenarios ==
    {[stale |-> <<>>, payload |-> p, dev_id |-> 2,
      frame |-> StpsMessage_get_msg(p, 2) \o p, wide_at |-> 0, wide_len |-> 1] :
        p \in ScpPayloads}

StpsScenarios ==
    StpsFrameScenarios \cup StpsPurgeScenarios \cup StpsGarbageScenarios \cup ScpScenarios

\* StpsParser.__init__ at clock 0, nothing fed
StpsIdle ==
    /\ buf = <<>>
    /\ mode = Idle
    /\ last_time = 0
    /\ now = 0
    /\ stps_in = <<>>
    /\ stps_out = <<>>
    /\ stps_sc = [stale |-> <<>>, payload |-> <<>>, dev_id |-> 0, frame |-> <<>>,
                  wide_at |-> 0, wide_len |-> 1]
    /\ npolls = 0
    /\ gapped = FALSE

\* no CRC routine has been called on its own
CrcIdle ==
    /\ crc_in = <<>>
    /\ crc_rtn = <<>>

\* ScpCliMessage.__init__, and no assemle call yet
CliIdle ==
    /\ cli_text = <<>>
    /\ cli_scp_msg = <<>>
    /\ cli_rtn = <<>>

CodecIdle ==
    /\ rx_q = <<>>
    /\ cb_log = <<>>
    /\ outcome = "none"
    /\ ncalls = 0
    /\ rx_in = <<>>
    /\ sc = [kind |-> "none"]

InitStps ==
    /\ stps_sc \in StpsScenarios
    /\ stps_in = stps_sc.stale \o stps_sc.frame
    /\ buf = <<>>
    /\ mode = Idle
    /\ last_time = 0
    /\ now = 0
    /\ stps_out = <<>>
    /\ npolls = 0
    /\ gapped = FALSE
    /\ CodecIdle
    /\ BootIdle
    /\ CrcIdle
    /\ CliIdle

\* the number of bytes the next parse call takes: one, or wide_len at the
\* position wide_at of the stream
StpsPos == Len(stps_sc.stale) + Len(stps_sc.frame) - Len(stps_in) + 1
StpsTake == IF StpsPos = stps_sc.wide_at THEN Min(stps_sc.wide_len, Len(stps_in)) ELSE 1

\* parse( data ) with the next bytes of the stream
StpsFeed ==
    /\ stps_in # <<>>
    /\ LET r == parse(buf, mode, last_time, now, SubSeq(stps_in, 1, StpsTake))
       IN  /\ buf' = r.buf
           /\ mode' = r.mode
           /\ last_time' = r.last_time
           /\ stps_out' = stps_out \o r.rtn
    /\ gapped' = IF Len(stps_in) = Len(stps_sc.frame)
                 THEN (now - last_time) > STPS_TIMEOUT_MS
                 ELSE gapped
    /\ stps_in' = SubSeq(stps_in, StpsTake + 1, Len(stps_in))
    /\ UNCHANGED <<now, stps_sc, npolls, codec_vars, boot_vars, crc_vars, cli_vars>>

\* parse( b'' ): a call that brings no byte
StpsPoll ==
    /\ npolls < MaxPolls
    /\ LET r == parse(buf, mode, last_time, now, <<>>)
       IN  /\ buf' = r.buf
           /\ mode' = r.mode
           /\ last_time' = r.last_time
           /\ stps_out' = stps_out \o r.rtn
    /\ npolls' = npolls + 1
    /\ UNCHANGED <<now, stps_in, stps_sc, gapped, codec_vars, boot_vars, crc_vars, cli_vars>>

\* time passes; once the parser has been silent for longer than the
\* timeout, more silence changes nothing
StpsTick ==
    /\ now + TickMs <= MaxNow
    /\ (now - last_time) <= STPS_TIMEOUT_MS
    /\ now' = now + TickMs
    /\ UNCHANGED <<buf, mode, last_time, stps_in, stps_out, stps_sc, npolls, gapped, codec_vars,
                   boot_vars, crc_vars, cli_vars>>

NextStps == StpsFeed \/ StpsPoll \/ StpsTick

SpecStps == InitStps /\ [][NextStps]_vars

\* SpecStps with a clock that keeps running and a caller that keeps
\* calling parse, with data while the stream has bytes and without data while
\* it may
SpecStpsLive ==
    /\ InitStps
    /\ [][NextStps]_vars
    /\ WF_vars(StpsTick)
    /\ WF_vars(StpsPoll)
    /\ WF_vars(StpsFeed)

-----------------------------------------------------------------------------
(* SpecCodec: one byte stream delivered to BootProtocol.parser in chunks.   *)
(* The callbacks are recorders: each appends its slot, status and payload.  *)

\* payloads of bytes chosen to look like a preamble inside a payload
Payloads == SeqsUpTo({176, 7}, MaxPayload)

\* OK, one error flag, a combination of flags
Statuses == {0, 1, 130}

\* the five response commands and one command without a callback slot
CMD_UNKNOWN == 81
RspCommands == {cmd_type[n] : n \in 1..Len(cmd_type)}

\* garbage: runs of one byte, and one run that ends like a preamble start
GarbageRuns ==
    {[i \in 1..n |-> g] : n \in 1..MaxGarbage, g \in {0, 176}} \cup {<<7, 176>>}

Scenario(kind, first, command, status, payload, frame) ==
    [kind |-> kind, first |-> first, command |-> command, status |-> status,
     payload |-> payload, frame |-> frame]

\* a valid frame alone
FrameScenarios ==
    {Scenario("frame", <<>>, c, st, p, DevFrame(c, st, p)) :
        c \in RspCommands \cup {CMD_UNKNOWN}, st \in Statuses, p \in Payloads}

\* a frame with one bit of its CRC byte flipped, then a valid frame
CorruptScenarios ==
    {Scenario("corrupt",
              [DevFrame(x[1], x[2], x[3]) EXCEPT ![8] = Xor(@, Pow2(x[4]))],
              c, 0, p, DevFrame(c, 0, p)) :
        x \in {CMD_CONNECT_RSP, CMD_FLASH_RSP} \X {0, 1} \X Payloads \X (0..7),
        c \in {CMD_PREPARE_RSP}, p \in {<<>>, <<7>>}}

\* garbage, then a valid frame
GarbageScenarios ==
    {Scenario("garbage", g, c, st, p, DevFrame(c, st, p)) :
        g \in GarbageRuns, c \in {CMD_CONNECT_RSP}, st \in {0, 1}, p \in {<<>>, <<176, 7>>}}

\* a frame built by a send-side builder, handed back to the parser
LoopbackScenarios ==
    {Scenario("loopback", <<>>, f[6], f[7], Slice(f, 9, Len(f)), f) :
        f \in {send_connect_frame, send_exit_frame, send_info_frame}
              \cup {send_prepare_frame(h) : h \in Payloads}
              \cup {send_flash_data_frame(d, Len(d)) : d \in Payloads}}

\* a valid frame followed in the same segment by more bytes: the start of a
\* following frame, or the byte that, appended to payload p, leaves
\* __calc_crc8 unchanged
TrailingBytes(p) ==
    {<<176>>, <<176, 7>>,
     <<CHOOSE e \in 0..255 : calc_crc8(p \o <<e>>) = calc_crc8(p)>>}

TrailingScenarios ==
    UNION {{Scenario("trailing", <<>>, CMD_CONNECT_RSP, st, p,
                     DevFrame(CMD_CONNECT_RSP, st, p) \o e) : e \in TrailingBytes(p)} :
               st \in {0, 1}, p \in Payloads}

Scenarios ==
    FrameScenarios \cup CorruptScenarios \cup GarbageScenarios \cup LoopbackScenarios
        \cup TrailingScenarios

InitCodec ==
    /\ sc \in Scenarios
    /\ rx_in = IF sc.first = <<>> THEN <<sc.frame>> ELSE <<sc.first, sc.frame>>
    /\ rx_q = <<>>
    /\ cb_log = <<>>
    /\ outcome = "none"
    /\ ncalls = 0
    /\ StpsIdle
    /\ BootIdle
    /\ CrcIdle
    /\ CliIdle

\* msg_receive_cb -> parser( payload ) with the next k bytes of the current segment
Deliver ==
    /\ rx_in # <<>>
    /\ \E k \in 1..Len(Head(rx_in)) :
         LET seg   == Head(rx_in)
             chunk == SubSeq(seg, 1, k)
             q     == rx_q \o chunk
             r     == parser_scan(q)
         IN  /\ rx_q' = parser_queue_after(q, r.kind, FALSE)
             /\ cb_log' = IF r.kind = "dispatch"
                          THEN Append(cb_log, [n |-> r.n, status |-> r.status, payload |-> r.payload])
                          ELSE cb_log
             /\ outcome' = r.kind
             /\ ncalls' = IF ncalls < MaxCalls THEN ncalls + 1 ELSE ncalls
             /\ rx_in' = IF k = Len(seg) THEN Tail(rx_in)
                         ELSE <<SubSeq(seg, k + 1, Len(seg))>> \o Tail(rx_in)
    /\ UNCHANGED <<sc, stps_vars, boot_vars, crc_vars, cli_vars>>

NextCodec == Deliver

SpecCodec == InitCodec /\ [][NextCodec]_vars

-----------------------------------------------------------------------------
(* Spec: BootFrame driven by the user (Browse, the Upgrade/Cancel button,   *)
(* the two switches), by MainWindow when the COM port connects or           *)
(* disconnects, and by a device that puts frames and noise on the wire.     *)
(* SerialComPort.read takes one byte from the port at a time and each byte  *)
(* reaches msg_receive_cb in a message of its own, so a frame arrives byte  *)
(* by byte and other handlers run between its bytes.  __browse_btn_press    *)
(* waits in the file dialog, which keeps the window's event loop running:   *)
(* MainWindow.__fast_hndl goes on handling the messages of the COM port     *)
(* while the dialog is open, and the dialog keeps the user from the other   *)
(* widgets.  __update_btn_press and __com_timer_expire raise before they    *)
(* reach a time.sleep or the creation of the timer, so every other handler  *)
(* is one step.                                                             *)
(*                                                                          *)
(* Spec drives a BootFrame at the functions MainWindow and the widgets      *)
(* call.  The sources lack com/Timer.py and class ConfigSwitch, which the   *)
(* construction of a BootFrame needs; timer_start, timer_cancel,            *)
(* timer_reset and ConfigSwitch stand for them.  MainWindow.__init__ reads  *)
(* IpcMsgType.IpcMsgType_ComRxBinary (MainWindow.py line 116), a member     *)
(* IpcMsgType does not define, when it registers __ipc_rx_binary_cmd, and   *)
(* SerialComPort reads it when it forwards a byte (SerialComPort.py line    *)
(* 229); DeviceSend is the call the registered handler makes.               *)

\* BootFrame's fields at the start of a handler
Cur ==
    [fw_file |-> fw_file, image_valid_btn |-> image_valid_btn, usb_com_btn |-> usb_com_btn,
     upgrade_btn_active |-> upgrade_btn_active, update_btn |-> update_btn,
     browse_btn |-> browse_btn, btn_text |-> btn_text, status_text |-> status_text,
     working_addr |-> working_addr, progress |-> progress, boot_ver_text |-> boot_ver_text,
     timers |-> timers, com_timer |-> com_timer, rx_q |-> rx_q,
     tx |-> <<>>, exc |-> "none"]

\* the bootloader requests among the messages sent
RECURSIVE Requests(_)
Requests(tx) ==
    IF tx = <<>> THEN <<>>
    ELSE (IF Head(tx).kind \in {"info", "connect", "prepare", "flash_data", "exit"}
          THEN <<Head(tx).kind>> ELSE <<>>) \o Requests(Tail(tx))

\* BootFrame's fields as handler op leaves them, with the COM port
\* connected or not as cc tells
Apply(s, op, cc) ==
    /\ fw_file' = s.fw_file
    /\ image_valid_btn' = s.image_valid_btn
    /\ usb_com_btn' = s.usb_com_btn
    /\ upgrade_btn_active' = s.upgrade_btn_active
    /\ update_btn' = s.update_btn
    /\ browse_btn' = s.browse_btn
    /\ btn_text' = s.btn_text
    /\ status_text' = s.status_text
    /\ working_addr' = s.working_addr
    /\ progress' = s.progress
    /\ boot_ver_text' = s.boot_ver_text
    /\ timers' = s.timers
    /\ com_timer' = s.com_timer
    /\ rx_q' = s.rx_q
    /\ com_connected' = cc
    /\ tx_last' = s.tx
    /\ exc_last' = s.exc
    /\ last_op' = op
    /\ UNCHANGED <<cb_log, outcome, ncalls, rx_in, sc, stps_vars, crc_vars, cli_vars>>

Init ==
    /\ BootIdle
    /\ CodecIdle
    /\ StpsIdle
    /\ CrcIdle
    /\ CliIdle

\* the user presses Browse: __browse_btn_press up to the call of
\* askopenfilename, which opens the dialog
BrowsePress ==
    /\ browse_btn = "normal"
    /\ ~dialog_open
    /\ dialog_open' = TRUE
    /\ UNCHANGED <<fw_file, image_valid_btn, usb_com_btn, upgrade_btn_active, update_btn,
                   browse_btn, btn_text, status_text, working_addr, progress,
                   boot_ver_text, timers, com_timer, com_connected, tx_last, exc_last,
                   last_op, ndev, wire, codec_vars, stps_vars, crc_vars, cli_vars>>

\* the user selects file f in the dialog or, f = 0, closes it without a
\* file: askopenfilename returns and __browse_btn_press runs to its end
BrowseDialog ==
    /\ dialog_open
    /\ \E f \in DOMAIN FwFiles \cup {0} :
           Apply(browse_btn_press(Cur, f), "browse", com_connected)
    /\ dialog_open' = FALSE
    /\ UNCHANGED <<ndev, wire>>

\* the user presses the button that reads Upgrade or Cancel
UpdatePress ==
    /\ update_btn = "normal"
    /\ ~dialog_open
    /\ Apply(update_btn_press(Cur), IF btn_text = "Upgrade" THEN "start" ELSE "cancel",
             com_connected)
    /\ UNCHANGED <<ndev, wire, dialog_open>>

\* the user flips the switch "Validate FW image"
ToggleImageValid ==
    /\ ~dialog_open
    /\ Apply([Cur EXCEPT !.image_valid_btn = ~image_valid_btn], "switch", com_connected)
    /\ UNCHANGED <<ndev, wire, dialog_open>>

\* the user flips the switch "USB communication"
ToggleUsbCom ==
    /\ ~dialog_open
    /\ Apply([Cur EXCEPT !.usb_com_btn = ~usb_com_btn], "switch", com_connected)
    /\ UNCHANGED <<ndev, wire, dialog_open>>

\* MainWindow.__ipc_disconnect_cmd with a true payload: the reply to a
\* disconnect request, which SerialComPort.disconnect also answers with True
\* when the port is closed already, so that it can arrive in either state
ComDisconnected ==
    /\ Apply(deactivate_widgets(Cur), "com_disconnect", FALSE)
    /\ UNCHANGED <<ndev, wire, dialog_open>>

\* MainWindow.__ipc_connect_cmd: the COM port has been opened
ComConnected ==
    /\ ~com_connected
    /\ Apply(activate_widgets(Cur), "com_connect", TRUE)
    /\ UNCHANGED <<ndev, wire, dialog_open>>

\* what a device puts on the wire: response frames and line noise
DeviceFrames ==
    {DevFrame(CMD_CONNECT_RSP, MSG_OK, <<>>),
     DevFrame(CMD_CONNECT_RSP, 1, <<>>),
     DevFrame(CMD_CONNECT_RSP, 130, <<>>),
     DevFrame(CMD_PREPARE_RSP, MSG_OK, <<>>),
     DevFrame(CMD_FLASH_RSP, 4, <<>>),
     DevFrame(CMD_EXIT_RSP, MSG_OK, <<>>),
     DevFrame(CMD_INFO_RSP, MSG_OK, <<1, 2, 3, 4>>),
     <<0>>}

\* MainWindow.__ipc_rx_binary_cmd: the byte SerialComPort.read has taken
\* from the open port is handed to msg_receive_cb.  It is the next byte of
\* the frame in transit or, when the device has sent the whole of it, the
\* first byte of the next.
DeviceSend ==
    /\ com_connected
    /\ Len(rx_q) < MaxRxLen
    /\ \/ /\ wire # <<>>
          /\ Apply(msg_receive_cb(Cur, <<Head(wire)>>), "receive", com_connected)
          /\ wire' = Tail(wire)
          /\ UNCHANGED ndev
       \/ /\ wire = <<>>
          /\ ndev < MaxDevFrames
          /\ \E frame \in DeviceFrames :
                 /\ Apply(msg_receive_cb(Cur, <<Head(frame)>>), "receive", com_connected)
                 /\ wire' = Tail(frame)
          /\ ndev' = ndev + 1
    /\ UNCHANGED dialog_open

Next ==
    \/ BrowsePress
    \/ BrowseDialog
    \/ UpdatePress
    \/ ToggleImageValid
    \/ ToggleUsbCom
    \/ ComDisconnected
    \/ ComConnected
    \/ DeviceSend

Spec == Init /\ [][Next]_vars

-----------------------------------------------------------------------------
(* SpecCrc: one byte sequence handed to each of the four CRC-8 routines.    *)
(* crc_rtn holds <<routine, value>> for every call made, in call order.     *)

CrcInputs == SeqsUpTo({0, 1, 52, 127, 128, 182, 255}, MaxCrcLen)

\* the routines already called on crc_in
CrcCalled == {crc_rtn[i][1] : i \in DOMAIN crc_rtn}

InitCrc ==
    /\ crc_in \in CrcInputs
    /\ crc_rtn = <<>>
    /\ CodecIdle
    /\ StpsIdle
    /\ BootIdle
    /\ CliIdle

CrcCall(routine, value) ==
    /\ routine \notin CrcCalled
    /\ crc_rtn' = Append(crc_rtn, <<routine, value>>)
    /\ UNCHANGED <<crc_in, codec_vars, stps_vars, boot_vars, cli_vars>>

\* BootProtocol.__calc_crc8( crc_in )
CallBootProtocolCrc == CrcCall("BootProtocol", calc_crc8(crc_in))

\* FwImage.__calc_crc8( crc_in )
CallFwImageCrc == CrcCall("FwImage", FwImage_calc_crc8(crc_in))

\* StpsMessage.__calc_crc( crc_in, len( crc_in ))
CallStpsMessageCrc == CrcCall("StpsMessage", StpsMessage_calc_crc(crc_in, Len(crc_in)))

\* StpsParser.__calc_crc8( crc_in )
CallStpsParserCrc == CrcCall("StpsParser", StpsParser_calc_crc8(crc_in))

NextCrc ==
    \/ CallBootProtocolCrc
    \/ CallFwImageCrc
    \/ CallStpsMessageCrc
    \/ CallStpsParserCrc

SpecCrc == InitCrc /\ [][NextCrc]_vars

-----------------------------------------------------------------------------
(* SpecCli: one ScpCliMessage object whose assemle is called with the same  *)
(* text up to MaxAssemle times.                                              *)

\* ScpCliMessage.assemle( data ) on an object whose scp_msg holds the given
\* entries: the new scp_msg and the list returned
ScpCliMessage_assemle(scp_msg, data) ==
    LET msg == scp_msg
               \o <<0, ScpCommand_WRITE, 73, 252, 0, 0, 0, 0, 1, 0, ScpAttrType_STR,
                     Len(data) + 2>>
               \o data \o <<13, 10>>
    IN  [scp_msg |-> msg, rtn |-> StpsMessage_get_msg(msg, 2) \o msg]

\* short texts of the character codes of "a", CR, "y" with diaeresis
\* (U+00FF) and the euro sign, and texts of "a" around the length at which
\* len + 2 = 256
CliTexts ==
    SeqsUpTo({97, 13, 255, 8364}, MaxCliText)
        \cup {[i \in 1..n |-> 97] : n \in (LongCliText - 1)..LongCliText}

InitCli ==
    /\ cli_text \in CliTexts
    /\ cli_scp_msg = <<>>
    /\ cli_rtn = <<>>
    /\ CodecIdle
    /\ StpsIdle
    /\ BootIdle
    /\ CrcIdle

Assemle ==
    /\ Len(cli_rtn) < MaxAssemle
    /\ LET r == ScpCliMessage_assemle(cli_scp_msg, cli_text)
       IN  /\ cli_scp_msg' = r.scp_msg
           /\ cli_rtn' = Append(cli_rtn, r.rtn)
    /\ UNCHANGED <<cli_text, codec_vars, stps_vars, boot_vars, crc_vars>>

NextCli == Assemle

SpecCli == InitCli /\ [][NextCli]_vars

-----------------------------------------------------------------------------
(* Claims about the bootloader codec, checked under SpecCodec *)

\* the callback slot of a response command
SlotOf(command) == CHOOSE n \in 1..Len(cmd_type) : cmd_type[n] = command

\* the one callback invocation the scenario's valid frame must cause
ExpectedCall == [n |-> SlotOf(sc.command), status |-> sc.status, payload |-> sc.payload]

\* C1: a valid frame with a recognised response command, delivered from an
\* empty buffer in any sequence of non-empty chunks, causes no callback before
\* its last byte and exactly one callback, with its status and payload, once
\* the last byte is in; the buffer is then empty.
C1_OneDispatchUnderFragmentation ==
    (sc.kind = "frame" /\ sc.command \in RspCommands) =>
        /\ rx_in # <<>> => cb_log = <<>>
        /\ rx_in = <<>> => (cb_log = <<ExpectedCall>> /\ rx_q = <<>>)

C1_Witness ==
    /\ sc.kind = "frame"
    /\ sc.command \in RspCommands
    /\ sc.payload # <<>>
    /\ rx_in = <<>>
    /\ ncalls >= 2
    /\ Len(cb_log) = 1

\* C2: every frame a send-side builder produces passes the CRC comparison
\* of the parser (the parser does not end in its CRC-error branch on it).
C2_BuildersPassParserCrc ==
    (sc.kind = "loopback" /\ rx_in = <<>>) => outcome # "crc_err"

\* C4: a frame whose CRC byte has one bit flipped causes no callback in any
\* chunking and leaves the buffer empty at its last byte; the valid frame
\* delivered after it is dispatched exactly once.
C4_CorruptFrameDropped ==
    sc.kind = "corrupt" =>
        /\ rx_in # <<>> => cb_log = <<>>
        /\ rx_in = <<sc.frame>> => (rx_q = <<>> /\ outcome = "crc_err")
        /\ rx_in = <<>> => (cb_log = <<ExpectedCall>> /\ rx_q = <<>>)

C4_Witness ==
    /\ sc.kind = "corrupt"
    /\ Len(sc.first) > 8
    /\ rx_in = <<>>
    /\ ncalls >= 2
    /\ cb_log = <<ExpectedCall>>

\* C5: garbage in front of a valid frame is discarded without any byte of
\* the frame, so the frame causes exactly one callback with its status and
\* payload.
C5_GarbageThenFrameDispatched ==
    (sc.kind = "garbage" /\ rx_in = <<>>) => cb_log = <<ExpectedCall>>

\* C16: get_status_str returns a string, without raising, for the status of
\* every response frame the parser has dispatched: the defined codes and
\* the combinations of their flags.
C16_StatusStringTotal ==
    \A i \in DOMAIN cb_log :
        /\ get_status_str(cb_log[i].status).raised = "none"
        /\ get_status_str(cb_log[i].status).str # ""

\* the three frames the builders send as literals
LiteralFrames == {send_connect_frame, send_exit_frame, send_info_frame}

\* C17: the field-wise rule of the parser gives 0x9B for the fields of
\* send_connect, 0x2C for those of send_exit and 0x82 for those of
\* send_info, the CRC bytes written in the literals; and each of the three
\* frames, delivered to the parser in any chunking, passes its CRC
\* comparison: the call that takes the last byte ends behind the comparison,
\* with the buffer reset.
C17_LiteralCrcVectors ==
    /\ parser_calc_crc(<<176, 7, 0, 0, 43, 16, 0, 0>>) = 155
    /\ parser_calc_crc(send_connect_frame) = send_connect_frame[8]
    /\ parser_calc_crc(send_exit_frame) = 44
    /\ parser_calc_crc(send_exit_frame) = send_exit_frame[8]
    /\ parser_calc_crc(send_info_frame) = 130
    /\ parser_calc_crc(send_info_frame) = send_info_frame[8]
    /\ (sc.kind = "loopback" /\ sc.frame \in LiteralFrames) =>
           /\ rx_in # <<>> => outcome \in {"none", "wait"}
           /\ rx_in = <<>> => (outcome = "ignored" /\ rx_q = <<>> /\ cb_log = <<>>)

C17_Witness ==
    /\ sc.kind = "loopback"
    /\ sc.frame = send_connect_frame
    /\ rx_in = <<>>
    /\ ncalls >= 2
    /\ outcome = "ignored"

\* the garbage of a garbage scenario is being delivered, or has just been
\* delivered completely
GarbagePhase == sc.kind = "garbage" /\ (Len(rx_in) = 2 \/ rx_in = <<sc.frame>>)

\* C18 as stated: while bytes that do not start with the preamble are
\* delivered, the buffer keeps every one of them, so its length is the
\* number of garbage bytes delivered so far.
C18_GarbageGrowsBuffer ==
    (sc.kind = "garbage" /\ Len(rx_in) = 2) =>
        Len(rx_q) = Len(sc.first) - Len(Head(rx_in))

\* C18 amended: bytes that do not start with the preamble cannot make the
\* buffer grow: a parser call that finds 8 or more of them resets the
\* buffer, so after every call on such a stream the buffer holds fewer than
\* 8 bytes, and no callback is called.
C18_GarbageBufferBounded ==
    GarbagePhase => (Len(rx_q) < 8 /\ cb_log = <<>>)

C18_Witness ==
    /\ sc.kind = "garbage"
    /\ Len(sc.first) >= 9
    /\ rx_in = <<sc.frame>>
    /\ outcome = "desync"
    /\ rx_q = <<>>
    /\ ncalls >= 2

\* C19: after every parser call that returned, the buffer is empty, or
\* holds fewer than 8 bytes, or begins with B0 07 and holds fewer than 8 + L
\* bytes, L being the length declared in bytes 2..3: never a complete frame.
C19_AtMostOnePartialFrame ==
    \/ rx_q = <<>>
    \/ Len(rx_q) < 8
    \/ /\ <<rx_q[1], rx_q[2]>> = PREAMBLE
       /\ Len(rx_q) < 8 + lenght_val_of(rx_q)

C19_Witness ==
    /\ sc.kind = "frame"
    /\ Len(sc.payload) = MaxPayload
    /\ Len(rx_q) = 8 + MaxPayload - 1
    /\ outcome = "wait"
    /\ ncalls >= 1

\* the callback slots in the order BootFrame registers them: connect,
\* prepare, flash, exit, info
SlotOfCode == (17 :> 1) @@ (33 :> 2) @@ (49 :> 3) @@ (65 :> 4) @@ (161 :> 5)

\* C22: a CRC-valid frame whose command is none of 0x11, 0x21, 0x31, 0x41,
\* 0xA1 causes no callback and the buffer is empty after its last byte; a
\* CRC-valid frame with one of these codes causes exactly one callback, the
\* one registered for the code, once, with the buffer empty afterwards.
C22_OneCallbackPerCode ==
    /\ \A c \in DOMAIN SlotOfCode : matching_slots(c) = {SlotOfCode[c]}
    /\ (sc.kind = "frame" /\ rx_in = <<>>) =>
           /\ rx_q = <<>>
           /\ IF sc.command \in DOMAIN SlotOfCode
              THEN cb_log = <<[n |-> SlotOfCode[sc.command], status |-> sc.status,
                               payload |-> sc.payload]>>
              ELSE cb_log = <<>> /\ outcome = "ignored"

C22_Witness ==
    /\ sc.kind = "frame"
    /\ sc.command = CMD_UNKNOWN
    /\ sc.payload # <<>>
    /\ rx_in = <<>>
    /\ ncalls >= 2
    /\ outcome = "ignored"

\* C37: the payload handed to a callback is the payload of the frame, with
\* the number of bytes its length field declares, and a valid frame that
\* arrives with further bytes behind it in the same chunk passes the CRC
\* check and is handed to its callback.
C37_PayloadHasDeclaredLength ==
    /\ \A i \in DOMAIN cb_log : cb_log[i].payload = sc.payload
    /\ (sc.kind = "trailing" /\ rx_in = <<>>) =>
           cb_log = <<[n |-> 1, status |-> sc.status, payload |-> sc.payload]>>

-----------------------------------------------------------------------------
(* Claims checked under SpecStps *)

\* C3: the header of StpsMessage(p, d) followed by the bytes of a non-empty
\* payload p, fed to a fresh StpsParser one byte per parse call, makes parse
\* return None on every call before the last and p, unchanged, on the last.
C3_StpsRoundTrip ==
    (stps_sc.stale = <<>> /\ stps_sc.payload # <<>> /\ npolls = 0) =>
        /\ stps_in # <<>> => stps_out = <<>>
        /\ stps_in = <<>> => (stps_out = <<stps_sc.payload>> /\ buf = <<>> /\ mode = Idle)

C3_Witness ==
    /\ stps_sc.stale = <<>>
    /\ Len(stps_sc.payload) = MaxStpsPayload
    /\ stps_sc.dev_id > 255
    /\ npolls = 0
    /\ stps_in = <<>>
    /\ stps_out = <<stps_sc.payload>>

\* C6: when the parser holds a partial header of 1 to 7 bytes and the first
\* byte of a complete valid frame arrives more than 100 ms after the last of
\* them, feeding the frame one byte per call makes parse return its payload.
C6_StalePartialPurged ==
    (Len(stps_sc.stale) \in 1..7 /\ gapped /\ stps_in = <<>>) =>
        stps_out = <<stps_sc.payload>>

-----------------------------------------------------------------------------
(* Claims about the upgrade orchestrator, checked under Spec.  A claim      *)
(* about what a handler does in a state is stated on the fields the         *)
(* handler leaves when it is run in that state.                             *)

\* the size read from the header of the selected image
image_size == get_fw_size(FwFiles[fw_file])

\* some timer of tms has neither expired nor been cancelled
Running(tms) == \E t \in DOMAIN tms : tms[t].st = "running"

\* the button reads Cancel: what the callbacks and the expiry handler take
\* for an upgrade in progress
InSession == btn_text = "Cancel"

\* C7: the golden path begins with the press of Upgrade on a valid image:
\* the press returns and the session shows Connecting; and whenever the
\* session shows success working_addr equals the image size S.
C7_GoldenPath ==
    /\ (last_op = "start" /\ fw_file # 0 /\ FwValid[fw_file]) =>
           /\ exc_last = "none"
           /\ Phase(status_text) = "Connecting"
    /\ Phase(status_text) = "Done" => (fw_file # 0 /\ working_addr = image_size)

\* C8: when the timer's function runs after a press of Upgrade or during an
\* upgrade in progress, it returns, the session is Failed afterwards, the
\* reassembly buffer is empty, nothing was sent and the button starts an
\* upgrade again.
C8_StageTimeoutFails ==
    (last_op = "start" \/ InSession) =>
        /\ com_timer_expire(Cur).exc = "none"
        /\ Phase(com_timer_expire(Cur).status_text) = "Failed"
        /\ com_timer_expire(Cur).rx_q = <<>>
        /\ com_timer_expire(Cur).tx = <<>>
        /\ com_timer_expire(Cur).btn_text = "Upgrade"

C10_CancelInActivePhase ==
    last_op = "cancel" =>
        /\ exc_last = "none"
        /\ Phase(status_text) = "Canceled"
        /\ ~Running(timers)
        /\ rx_q = <<>>
        /\ tx_last = <<>>

\* C13: two presses of the button that reads Cancel leave what one press
\* leaves: the status reads canceled, no timer is running, the reassembly
\* buffer is empty and nothing was sent.
C13_CancelIdempotent ==
    InSession =>
        LET returned(s) == [s EXCEPT !.tx = <<>>, !.exc = "none"]
            once  == update_btn_press(Cur)
            twice == update_btn_press(returned(once))
        IN  /\ returned(twice) = returned(once)
            /\ Phase(twice.status_text) = "Canceled"
            /\ ~Running(twice.timers)
            /\ twice.rx_q = <<>>
            /\ twice.tx = <<>>

\* BootFrame's fields after msg_receive_cb has taken, byte by byte, the
\* response frame with the given command and status and no payload; exc is
\* the exception of the first of the calls that raised
AfterResponse(command, status) ==
    LET RECURSIVE received(_, _)
        received(s, bytes) ==
            IF bytes = <<>> THEN s
            ELSE LET r == msg_receive_cb([s EXCEPT !.exc = "none"], <<Head(bytes)>>)
                 IN  received([r EXCEPT !.exc = IF s.exc # "none" THEN s.exc ELSE @],
                              Tail(bytes))
    IN  received(Cur, DevFrame(command, status, <<>>))

\* C15: during an upgrade in progress, the callback of each of the five
\* commands, called with any status other than OK, returns, the status then
\* shows an error and no timer is running.
C15_NonOkSurfaced ==
    InSession =>
        \A n \in 1..Len(cmd_type), st \in Statuses \ {MSG_OK} :
            /\ callbacks(n, Cur, st, <<>>).exc = "none"
            /\ Phase(callbacks(n, Cur, st, <<>>).status_text) = "Failed"
            /\ ~Running(callbacks(n, Cur, st, <<>>).timers)

-----------------------------------------------------------------------------
(* More claims checked under SpecStps *)

\* payload_length as __parse_payload reads it from the buffer
StpsDeclared(b) == b[3] + b[4] * 256

\* C20: the accumulation buffer is bounded for every stream: it holds at
\* most 8 entries in Header mode and at most 8 + 65535 entries in any state,
\* because in Payload mode the frame ends once 8 + L entries are held and
\* the declared length L is at most 65535.
C20_StpsBufferBounded ==
    /\ mode = Header => Len(buf) <= 8
    /\ Len(buf) <= 8 + 65535
    /\ mode = Payload =>
           /\ Len(buf) <= 8 + StpsDeclared(buf)
           /\ StpsDeclared(buf) <= 65535

\* the payload p meets every condition ScpParser.parse tests
ScpCliString(p) ==
    /\ Len(p) >= 12
    /\ p[3] + p[4] * 256 = SCP_CLI_CLUSTER
    /\ p[2] = ScpCommand_WRITE
    /\ p[9] + p[10] * 256 = SCP_TX_ENDPOINT
    /\ p[11] = ScpAttrType_STR

\* C21: for every payload the STPS framer has completed, ScpParser.parse
\* returns without raising; it returns a string exactly when the payload is
\* a WRITE to cluster 0xFC49 whose first attribute has id 0x0000 and type
\* STR, and the string is then the attr-len bytes behind the 4-byte
\* attribute header; for every other payload it returns None.
C21_ScpParseResult ==
    \A i \in DOMAIN stps_out :
        LET p == stps_out[i]
            r == ScpParser_parse(<<p>>)
        IN  /\ r.exc = "none"
            /\ (r.kind = "str") <=> ScpCliString(p)
            /\ r.kind = "str" => (Len(r.str) = p[12] /\ r.str = Slice(p, 13, 12 + p[12]))

-----------------------------------------------------------------------------
\* the step is a parse call that brings data, or one that brings none
StpsFed == stps_in' # stps_in
StpsPolled == npolls' # npolls

\* the buffer of the call once its data, if any, has been appended
StpsHeld ==
    IF StpsFed THEN Append(buf, int_from_bytes(SubSeq(stps_in, 1, StpsTake))) ELSE buf

\* the CRC over {payload, length bytes, device-id bytes} of the frame that
\* starts buffer b equals entry 7
StpsCrcMatches(b) ==
    LET L == StpsDeclared(b)
        devid == b[5] + b[6] * 256
    IN  b[8] = Xor(Xor(StpsParser_calc_crc8(Slice(b, 9, L + 8)),
                       StpsParser_calc_crc8(<<L % 256, (L \div 256) % 256>>)),
                   StpsParser_calc_crc8(<<devid % 256, (devid \div 256) % 256>>))

\* what a parse call in Payload mode does, where no timeout ends it
PayloadStep ==
    IF Len(StpsHeld) >= StpsDeclared(StpsHeld) + 8
    THEN /\ buf' = <<>>
         /\ mode' = Idle
         /\ stps_out' = stps_out \o
                IF StpsCrcMatches(StpsHeld)
                THEN <<Slice(StpsHeld, 9, StpsDeclared(StpsHeld) + 8)>>
                ELSE None
    ELSE (StpsFed \/ (now - last_time) <= STPS_TIMEOUT_MS) =>
             /\ buf' = StpsHeld
             /\ mode' = Payload
             /\ stps_out' = stps_out

\* C29: a frame is finished on the parse call at which the buffer first
\* holds L + 8 entries, so that a parser left in Payload mode by a call holds
\* fewer than L + 8 entries; a call in Payload mode that holds L + 8 entries
\* returns entries 8..8+L if the CRC matches and None otherwise, empties the
\* buffer and sets the mode to Idle, and a call that holds fewer returns
\* None and keeps every entry.
C29_PayloadCompletion ==
    [][/\ mode' = Payload => Len(buf') < StpsDeclared(buf') + 8
       /\ (mode = Payload /\ (StpsFed \/ StpsPolled)) => PayloadStep]_vars

\* what C30 says of a parse call in Idle or Header mode
HeaderStep ==
    IF mode = Idle
    THEN buf' = StpsHeld /\ mode' = Header
    ELSE IF Len(StpsHeld) < 8
    THEN buf' = StpsHeld /\ mode' = Header
    ELSE IF StpsHeld[1] = 169 /\ StpsHeld[2] = 101
    THEN buf' = StpsHeld /\ mode' = Payload
    ELSE buf' = <<>> /\ mode' = Idle

\* the stream began with eight bytes that __parse_header purged
AfterPurge == stps_sc.stale \in PurgedHeaders

\* C30: a parse call in Idle mode keeps the data it brings and sets the mode
\* to Header; a call in Header mode keeps every entry and the mode while
\* fewer than 8 entries are held, and with 8 entries sets the mode to Payload
\* if entries 0..1 are A9 65 and otherwise empties the buffer and sets the
\* mode to Idle; all of them return None.  A frame fed one byte per call
\* right after such a purge, within 100 ms, is returned by the call of its
\* last byte and by no other.
C30_HeaderHandling ==
    /\ [][(mode \in {Idle, Header} /\ (StpsFed \/ StpsPolled)) =>
               (HeaderStep /\ stps_out' = stps_out)]_vars
    /\ [](mode = Header => Len(buf) < 8)
    /\ []((AfterPurge /\ (npolls = 0 \/ now <= STPS_TIMEOUT_MS)) =>
              /\ Len(stps_in) = Len(stps_sc.frame) => buf = <<>>
              /\ stps_in # <<>> => stps_out = <<>>
              /\ stps_in = <<>> => (stps_out = <<stps_sc.payload>> /\ buf = <<>>))

\* the parser holds a partial frame and more than 100 ms have passed since
\* the last byte arrived
StalePartial == mode # Idle /\ buf # <<>> /\ (now - last_time) > STPS_TIMEOUT_MS

\* C31: a partial frame that has been silent for more than 100 ms is
\* purged, with the mode back to Idle, as long as parse can still be called
\* without data, and no parse call appends a byte to such a partial frame:
\* the purge comes first.
C31_StaleEventuallyPurged ==
    /\ (StalePartial /\ npolls < MaxPolls) ~> (buf = <<>> /\ mode = Idle)
    /\ [][(StalePartial /\ StpsFed) => (buf' = <<>> \/ Len(buf') <= 1)]_vars

\* C39: after every parse call, mode Idle implies an empty buffer, and mode
\* Payload implies a buffer of at least 8 entries that starts with A9 65.
C39_ModeBufferInvariant ==
    /\ mode = Idle => buf = <<>>
    /\ mode = Payload => (Len(buf) >= 8 /\ buf[1] = 169 /\ buf[2] = 101)

C39_Witness ==
    /\ mode = Payload
    /\ Len(buf) > 8
    /\ stps_sc.stale # <<>>
    /\ npolls > 0

-----
(* More claims about the upgrade orchestrator, checked under Spec *)

\* C23: after a press of Upgrade with an image selected, the handling of a
\* connect response with status OK that comes into an empty buffer returns,
\* has sent exactly one request, the prepare frame, leaves a timer running
\* with the prepare timeout and the session in Preparing with an empty
\* reassembly buffer.
C23_ConnectOkStartsPrepare ==
    (last_op = "start" /\ fw_file # 0 /\ rx_q = <<>>) =>
        /\ AfterResponse(CMD_CONNECT_RSP, MSG_OK).exc = "none"
        /\ Requests(AfterResponse(CMD_CONNECT_RSP, MSG_OK).tx) = <<"prepare">>
        /\ \E t \in DOMAIN AfterResponse(CMD_CONNECT_RSP, MSG_OK).timers :
               AfterResponse(CMD_CONNECT_RSP, MSG_OK).timers[t] =
                   [st |-> "running", interval |-> BOOT_COM_PREPARE_TIMEOUT_MS]
        /\ Phase(AfterResponse(CMD_CONNECT_RSP, MSG_OK).status_text) = "Preparing"
        /\ AfterResponse(CMD_CONNECT_RSP, MSG_OK).rx_q = <<>>

\* C24: during an upgrade in progress with an image selected, the flash
\* callback called with status OK returns and has sent the next chunk when
\* working_addr is below the image size, and otherwise the exit frame, and
\* nothing else.
C24_FlashOkNextChunkOrExit ==
    (InSession /\ fw_file # 0) =>
        LET r == boot_flash_rx_cmpt_cb(Cur, MSG_OK, <<>>)
        IN  /\ r.exc = "none"
            /\ Requests(r.tx) =
                   IF working_addr < image_size THEN <<"flash_data">> ELSE <<"exit">>

\* the fields r that a callback leaves are those of a session that failed:
\* the callback returned, an error is shown, no timer is running, the
\* button reads Upgrade and no request was sent
Fails(r) ==
    /\ r.exc = "none"
    /\ Phase(r.status_text) = "Failed"
    /\ ~Running(r.timers)
    /\ r.btn_text = "Upgrade"
    /\ Requests(r.tx) = <<>>

\* C25: a status other than OK makes the session Failed: the connect
\* callback after a press of Upgrade, and the prepare, flash and exit
\* callbacks during an upgrade in progress.
C25_NonOkFails ==
    \A st \in Statuses \ {MSG_OK} :
        /\ last_op = "start" => Fails(boot_connect_rx_cmpt_cb(Cur, st, <<>>))
        /\ InSession => \A n \in 2..4 : Fails(callbacks(n, Cur, st, <<>>))

\* C26: a timer is running when the connect, the prepare or the flash
\* callback has handled status OK during an upgrade in progress, and no
\* timer is running in a state whose phase is Idle, Done, Failed or
\* Canceled.
C26_TimerPendingIffActive ==
    /\ (InSession /\ fw_file # 0) =>
           \A n \in 1..3 : Running(callbacks(n, Cur, MSG_OK, <<>>).timers)
    /\ Phase(status_text) \notin ActivePhases => ~Running(timers)

\* C27: during an upgrade in progress, the prepare callback called with
\* status OK sends one flash-data frame that starts at address 0 and holds
\* between 1 and 1024 bytes, and working_addr is then the number of bytes
\* sent; and working_addr never exceeds the image size.
C27_FlashContiguousWithinImage ==
    /\ (InSession /\ fw_file # 0) =>
           LET r == boot_prepare_rx_cmpt_cb(Cur, MSG_OK, <<>>)
           IN  /\ Len(r.tx) = 1
               /\ r.tx[1].kind = "flash_data"
               /\ r.tx[1].addr = 0
               /\ r.tx[1].size \in 1..BOOT_FLASH_DATA_FRAME_SIZE
               /\ r.working_addr = r.tx[1].size
    /\ fw_file # 0 => working_addr <= image_size

\* C28: during an upgrade in progress, the flash callback called with
\* status OK shows as progress the percentage of the image size that
\* working_addr has reached, and the progress shown always lies between 0
\* and 100.
C28_ProgressWithinRange ==
    /\ (InSession /\ fw_file # 0) =>
           LET r == boot_flash_rx_cmpt_cb(Cur, MSG_OK, <<>>)
           IN  /\ r.exc = "none"
               /\ r.progress = (r.working_addr * 100) \div image_size
    /\ progress \in 0..100

\* the response command a session awaits in the given phase
StageResponse(phase) ==
    IF phase = "Connecting" THEN CMD_CONNECT_RSP
    ELSE IF phase = "Preparing" THEN CMD_PREPARE_RSP
    ELSE IF phase = "Flashing" THEN CMD_FLASH_RSP
    ELSE CMD_EXIT_RSP

\* C34: in every state with an empty buffer, a connect, prepare, flash or
\* exit response that the current phase does not await, with any status,
\* sends no frame and leaves the status shown, working_addr and every timer
\* as they were.
C34_OutOfPhaseIgnored ==
    rx_q = <<>> =>
        \A c \in {CMD_CONNECT_RSP, CMD_PREPARE_RSP, CMD_FLASH_RSP, CMD_EXIT_RSP},
           st \in Statuses :
            ~(Phase(status_text) \in ActivePhases
                  /\ StageResponse(Phase(status_text)) = c) =>
                /\ Requests(AfterResponse(c, st).tx) = <<>>
                /\ AfterResponse(c, st).status_text = status_text
                /\ AfterResponse(c, st).working_addr = working_addr
                /\ AfterResponse(c, st).timers = timers
                /\ AfterResponse(c, st).com_timer = com_timer

\* C38: after msg_receive_cb has handled a byte, whether its callback
\* raised or not, the reassembly buffer holds no complete frame: what is
\* left is at most the start of a frame that parser still waits for.
C38_FrameLeavesBuffer ==
    last_op = "receive" => parser_scan(rx_q).kind = "wait"

-----------------------------------------------------------------------------
(* Claims checked under SpecCrc *)

\* the reference CRC-8: one shift, masked to 8 bits
ref_crc8_shift(crc8, poly) ==
    IF crc8 >= 128 THEN Xor((crc8 * 2) % 256, poly) ELSE (crc8 * 2) % 256

\* eight shifts, masked after every one
ref_crc8_bits(crc8, poly) ==
    ref_crc8_shift(ref_crc8_shift(ref_crc8_shift(ref_crc8_shift(
    ref_crc8_shift(ref_crc8_shift(ref_crc8_shift(ref_crc8_shift(crc8, poly), poly), poly),
        poly), poly), poly), poly), poly)

\* the reference CRC-8 of data with the given running value
RECURSIVE ref_crc8(_, _, _)
ref_crc8(crc8, poly, data) ==
    IF data = <<>> THEN crc8
    ELSE ref_crc8(ref_crc8_bits(Xor(crc8, Head(data)), poly), poly, Tail(data))

\* the seed of a routine
CrcSeed(routine) ==
    IF routine \in {"BootProtocol", "FwImage"} THEN BOOT_CRC_SEED ELSE STPS_CRC_SEED

\* C32: every value a CRC-8 routine returns lies in 0..255 and equals the
\* reference CRC-8 (polynomial 0x07, the routine's seed, masked to 8 bits
\* after every step) of the same bytes, so that StpsMessage.__calc_crc and
\* StpsParser.__calc_crc8 return the same value.
C32_CrcEqualsReference ==
    /\ \A i \in DOMAIN crc_rtn :
           /\ crc_rtn[i][2] \in 0..255
           /\ crc_rtn[i][2] = ref_crc8(CrcSeed(crc_rtn[i][1]), 7, crc_in)
    /\ \A i, j \in DOMAIN crc_rtn :
           {crc_rtn[i][1], crc_rtn[j][1]} = {"StpsMessage", "StpsParser"} =>
               crc_rtn[i][2] = crc_rtn[j][2]

C32_Witness ==
    /\ Len(crc_in) = MaxCrcLen
    /\ crc_in[1] = 255
    /\ CrcCalled = {"BootProtocol", "FwImage", "StpsMessage", "StpsParser"}

-----------------------------------------------------------------------------
(* Claims checked under SpecCli *)

\* C33: every list assemle returns on one object for one text is the same:
\* the 8-byte STPS header, whose length field is the number of entries that
\* follow it, and then one SCP WRITE message to cluster 0xFC49 with the text
\* and CR LF.
C33_AssemleRepeatable ==
    \A i \in DOMAIN cli_rtn :
        /\ cli_rtn[i] = cli_rtn[1]
        /\ Len(cli_rtn[i]) = 8 + 12 + Len(cli_text) + 2
        /\ cli_rtn[i][3] + cli_rtn[i][4] * 256 = Len(cli_rtn[i]) - 8
        /\ SubSeq(cli_rtn[i], 9, 12) = <<0, ScpCommand_WRITE, 73, 252>>

\* C40: every entry of a list assemle returns is an integer in 0..255, and
\* the two bytes of the STPS length field decode to the number of entries
\* that follow the header.
C40_AssemleEntriesAreBytes ==
    \A i \in DOMAIN cli_rtn :
        /\ \A k \in DOMAIN cli_rtn[i] : cli_rtn[i][k] \in 0..255
        /\ cli_rtn[i][3] + cli_rtn[i][4] * 256 = Len(cli_rtn[i]) - 8

====
